---- MODULE Spec2Model ----
(***************************************************************************)
(* Model of src/src/RAGService.ts: the SearchCache class and the           *)
(* RAGService class (knowledge-base registry, persistence, search).        *)
(*                                                                         *)
(* Spec is the sequential view: every public operation is one atomic       *)
(* action (one call runs to completion before the next starts).  The       *)
(* building blocks are state-free operators over values (an index, a chunk *)
(* map, the cache map), so that the same blocks are stepped at their await *)
(* points in SpecAsync, the view of calls in flight together.  SpecCache   *)
(* drives the SearchCache class alone, SpecEnv adds rejected calls and     *)
(* damaged work directories, SpecUpdate the document-level operations,     *)
(* SpecGrow batches large enough to pass the capacity of an index,         *)
(* SpecMixed batches over several knowledge bases and SpecPaths names that *)
(* path.join normalises.                                                   *)
(***************************************************************************)
EXTENDS Integers, Sequences, FiniteSets, TLC

VARIABLES
    config,      \* RAGService.config (the fields the cache is built from)
    indices,     \* RAGService.indices   : knowledge base -> open index
    chunkMaps,   \* RAGService.chunkMaps : knowledge base -> chunk map
    cache,       \* SearchCache.cache    : insertion-ordered Map
    hits,        \* SearchCache.hits
    misses,      \* SearchCache.misses
    maxSize,     \* SearchCache.maxSize  (constructor parameter)
    ttl,         \* SearchCache.ttl      (constructor parameter)
    stats,       \* RAGService.stats
    indexFiles,  \* <workDir>/<name>.hnsw         the files present
    chunkFiles,  \* <workDir>/<name>.chunks.json  the files present
    now,         \* Date.now()
    calls,       \* the number of calls made so far
    last,        \* the last completed call: its arguments and what it returned
    procs,       \* the calls in flight: where each one waits, and its locals
    gens         \* knowledge base -> identity of the registered objects

vars == <<config, indices, chunkMaps, cache, hits, misses, maxSize, ttl,
          stats, indexFiles, chunkFiles, now, calls, last, procs, gens>>

(***************************************************************************)
(* Bounds of the model.                                                    *)
(***************************************************************************)
MaxDocs == 2          \* documents per knowledge base
MaxBatch == 2         \* documents per addDocuments call
MaxCalls == 4         \* calls of the public operations in one history
TickStep == 40000     \* milliseconds one Tick advances the clock
MaxTime == 80000      \* no Tick once the clock has reached this value
MaxCacheSize == 2     \* largest maxSize the cache harness constructs
MaxInFlight == 2      \* calls in flight together
MaxGrowDocs == 1540   \* documents per knowledge base where capacity grows

(***************************************************************************)
(* Program constants.                                                      *)
(***************************************************************************)
DefaultCacheSize == 100
DefaultCacheTTL == 60000
DefaultK == 10
MinInitialCapacity == 1024
CapacitySlack == 256

None == "none"        \* an id / a k / a config field that was not supplied

KBs == {"kb1"}
EnvKBs == {"kb1", "kb2"}
Texts == {"a", "b"}       \* document contents
Queries == {"a"}          \* query texts
DocIds == {None}
\* requested k; 0 is falsy, so search replaces it by the default (k || 10)
Ks == {0, 1, 2}
\* similarity thresholds as fractions <<numerator, denominator>>
Thresholds == {<<0, 1>>, <<3, 4>>}

Min2(a, b) == IF a <= b THEN a ELSE b
Max2(a, b) == IF a >= b THEN a ELSE b

(***************************************************************************)
(* Embedding provider (external, order preserving): unit vectors.          *)
(***************************************************************************)
EmbeddingOf(text) ==
    CASE text = "a" -> <<1, 0>>
      [] text = "b" -> <<0, 1>>
      [] OTHER      -> <<-1, 0>>

getEmbeddings(texts) == [i \in DOMAIN texts |-> EmbeddingOf(texts[i])]

getEmbedding(text) == getEmbeddings(<<text>>)[1]

(***************************************************************************)
(* The vector index (hnswlib HierarchicalNSW, space 'cosine').             *)
(* An index is [maxElements, points], points : label -> vector.            *)
(***************************************************************************)
initIndex(capacity) == [maxElements |-> capacity, points |-> <<>>]

getCurrentCount(index) == Cardinality(DOMAIN index.points)

getMaxElements(index) == index.maxElements

\* a resize that is ignored
resizeIndexIgnored(index, newCapacity) == index

resizeIndex(index, newCapacity) == [index EXCEPT !.maxElements = newCapacity]

\* addPoint throws when a new label does not fit
addPointFits(index, label) ==
    label \in DOMAIN index.points \/ getCurrentCount(index) < index.maxElements

addPoint(index, vector, label) ==
    [index EXCEPT !.points = (label :> vector) @@ index.points]

\* cosine distance of unit vectors: 1 - <a, b>
Distance(a, b) == 1 - (a[1] * b[1] + a[2] * b[2])

Closer(points, q, l1, l2) ==
    \/ Distance(q, points[l1]) < Distance(q, points[l2])
    \/ Distance(q, points[l1]) = Distance(q, points[l2]) /\ l1 <= l2

RECURSIVE Nearest(_, _, _, _)
Nearest(points, q, labels, k) ==
    IF k <= 0 \/ labels = {} THEN <<>>
    ELSE LET best == CHOOSE l \in labels :
                         \A m \in labels : Closer(points, q, l, m)
         IN  <<[label |-> best, distance |-> Distance(q, points[best])]>>
             \o Nearest(points, q, labels \ {best}, k - 1)

\* searchKnn: up to k (label, distance) pairs, nearest first
searchKnn(index, q, k) == Nearest(index.points, q, DOMAIN index.points, k)

(***************************************************************************)
(* JavaScript Map / object / directory: a function on the keys present.    *)
(***************************************************************************)
MapSet(m, key, value) == (key :> value) @@ m

MapDelete(m, key) == [x \in DOMAIN m \ {key} |-> m[x]]

EmptyMap == <<>>

(***************************************************************************)
(* SearchCache.  The Map is the sequence of its entries in Map order;      *)
(* an entry is [key, result, timestamp, ins].  ins is a history field: the *)
(* rank of the entry among the present entries by the time its key was     *)
(* added to the Map (0 = added earliest).                                  *)
(***************************************************************************)
\* md5 over the JSON text of the vector: distinct vectors, distinct digests
VectorHash(queryVector) == 3 * (queryVector[1] + 1) + (queryVector[2] + 1)

getCacheKey(knowledgeBase, queryVector, k) ==
    <<knowledgeBase, VectorHash(queryVector), k>>

CacheKeys(c) == {c[i].key : i \in DOMAIN c}

CacheEntry(c, key) == c[CHOOSE i \in DOMAIN c : c[i].key = key]

\* Map.delete(key)
CacheDelete(c, key) ==
    IF key \notin CacheKeys(c) THEN c
    ELSE LET gone == CacheEntry(c, key)
             rest == SelectSeq(c, LAMBDA e : e.key # key)
         IN  [i \in DOMAIN rest |->
                 IF rest[i].ins > gone.ins
                 THEN [rest[i] EXCEPT !.ins = @ - 1] ELSE rest[i]]

\* the age of the entry a lookup finds (-1: there is none)
EntryAge(c, key, time) ==
    IF key \in CacheKeys(c) THEN time - CacheEntry(c, key).timestamp ELSE -1

\* firstKey of SearchCache.set, when it evicts
FirstKey(c, size) ==
    IF Len(c) >= size /\ Len(c) > 0 THEN <<c[1].key>> ELSE <<>>

\* a lookup that moves the entry it hits to the end of the Map
CacheGetLRU(c, key, time, timeToLive) ==
    IF key \in CacheKeys(c) /\ time - CacheEntry(c, key).timestamp < timeToLive
    THEN [hit |-> TRUE, result |-> CacheEntry(c, key).result,
          cache |-> Append(SelectSeq(c, LAMBDA e : e.key # key),
                           CacheEntry(c, key))]
    ELSE [hit |-> FALSE, result |-> <<>>, cache |-> CacheDelete(c, key)]

\* a lookup that leaves an expired entry in the Map
CacheGetKeepExpired(c, key, time, timeToLive) ==
    IF key \in CacheKeys(c) /\ time - CacheEntry(c, key).timestamp < timeToLive
    THEN [hit |-> TRUE, result |-> CacheEntry(c, key).result, cache |-> c]
    ELSE [hit |-> FALSE, result |-> <<>>, cache |-> c]

\* SearchCache.get: [hit, result, cache]
CacheGet(c, key, time, timeToLive) ==
    IF key \in CacheKeys(c) /\ time - CacheEntry(c, key).timestamp < timeToLive
    THEN [hit |-> TRUE, result |-> CacheEntry(c, key).result, cache |-> c]
    ELSE [hit |-> FALSE, result |-> <<>>, cache |-> CacheDelete(c, key)]

\* a store that is skipped
CacheSetSkipped(c, key, result, time, size) == c

\* SearchCache.set: the Map after the call
CacheSet(c, key, result, time, size) ==
    LET c1 == IF Len(c) >= size /\ Len(c) > 0
              THEN CacheDelete(c, c[1].key) ELSE c
    IN  IF key \in CacheKeys(c1)
        THEN [i \in DOMAIN c1 |->
                 IF c1[i].key = key
                 THEN [c1[i] EXCEPT !.result = result, !.timestamp = time]
                 ELSE c1[i]]
        ELSE Append(c1, [key |-> key, result |-> result,
                         timestamp |-> time, ins |-> Len(c1)])

(***************************************************************************)
(* Documents, chunks, results.                                             *)
(***************************************************************************)
\* a RAGDocument: [knowledgeBase, content, id]   (id None: not supplied)
Docs == [knowledgeBase : KBs, content : Texts, id : DocIds]

RECURSIVE SeqsUpTo(_, _)
SeqsUpTo(S, n) ==
    IF n = 0 THEN {<<>>}
    ELSE LET shorter == SeqsUpTo(S, n - 1)
         IN  shorter \cup {Append(q, x) : q \in shorter, x \in S}

Batches == SeqsUpTo(Docs, MaxBatch)

\* the chunk stored for docs[i] at ordinal currentIdx
\* a chunk that ignores the id the caller supplied
ChunkOfGenerated(doc, currentIdx) ==
    [id   |-> "doc-" \o ToString(currentIdx),
     text |-> doc.content]

ChunkOf(doc, currentIdx) ==
    [id   |-> IF doc.id # None THEN doc.id ELSE "doc-" \o ToString(currentIdx),
     text |-> doc.content]

\* JSON.stringify of a chunk map: the members in ascending key order
RECURSIVE JSONstringify(_)
JSONstringify(chunkMap) ==
    IF DOMAIN chunkMap = {} THEN <<>>
    ELSE IF DOMAIN chunkMap = 0..(Cardinality(DOMAIN chunkMap) - 1)
    THEN [i \in 1..Cardinality(DOMAIN chunkMap) |->
             [name |-> ToString(i - 1), value |-> chunkMap[i - 1]]]
    ELSE LET key == CHOOSE x \in DOMAIN chunkMap :
                        \A y \in DOMAIN chunkMap : x <= y
         IN  <<[name |-> ToString(key), value |-> chunkMap[key]] >>
             \o JSONstringify(MapDelete(chunkMap, key))

\* the ordinal a property name denotes
OrdinalOf(name) == CHOOSE n \in 0..(MaxDocs + MaxBatch + 1) : ToString(n) = name

\* a file text that is not JSON: a text cut short, its last member unnamed
MalformedText == <<[name |-> "", value |-> [id |-> "", text |-> ""]]>>

\* JSON.parse accepts the text (it throws a SyntaxError otherwise)
JSONvalid(text) == \A i \in DOMAIN text : text[i].name # ""

\* JSON.parse of such a text: the object with those members
JSONparse(text) ==
    [n \in {OrdinalOf(text[i].name) : i \in DOMAIN text} |->
        text[CHOOSE i \in DOMAIN text : OrdinalOf(text[i].name) = n].value]

\* similarity 1 / (1 + distance) as a fraction
Similarity(distance) == <<1, 1 + distance>>

\* a >= b for fractions with positive denominators
FracGeq(a, b) == a[1] * b[2] >= b[1] * a[2]

(***************************************************************************)
(* The registry: st = [indices, chunkMaps, indexFiles, chunkFiles].        *)
(***************************************************************************)
\* path.join(workDir, `${name}.hnsw`) and path.join(workDir,
\* `${name}.chunks.json`): the file a name gives within the work directory,
\* called by its name without the extension.  path.join normalises the path
\* it builds: a leading "./" is dropped ("./kb1.hnsw" is "kb1.hnsw").
pathJoin(name) ==
    IF \E n \in EnvKBs : name = "./" \o n
    THEN CHOOSE n \in EnvKBs : name = "./" \o n
    ELSE name

saveIndex(st, name, index) ==
    [st EXCEPT !.indexFiles = MapSet(@, pathJoin(name), index)]

\* a chunk map that is not written
saveChunkMapSkipped(st, name, chunkMap) == st

saveChunkMap(st, name, chunkMap) ==
    [st EXCEPT !.chunkFiles = MapSet(@, pathJoin(name),
                                     JSONstringify(chunkMap))]

\* getOrLoadIndex: [found, st]
getOrLoadIndex(st, knowledgeBase) ==
    IF knowledgeBase \in DOMAIN st.indices
    THEN [found |-> TRUE, st |-> st]
    ELSE IF /\ pathJoin(knowledgeBase) \in DOMAIN st.indexFiles
            /\ pathJoin(knowledgeBase) \in DOMAIN st.chunkFiles
            /\ JSONvalid(st.chunkFiles[pathJoin(knowledgeBase)])
         THEN [found |-> TRUE,
               st |-> [st EXCEPT
                   !.indices = MapSet(@, knowledgeBase,
                                   st.indexFiles[pathJoin(knowledgeBase)]),
                   !.chunkMaps = MapSet(@, knowledgeBase,
                       JSONparse(st.chunkFiles[pathJoin(knowledgeBase)]))]]
         ELSE [found |-> FALSE, st |-> st]

\* the iterations lo..hi of the insertion loop, docs[lo] at ordinal
\* currentIdx, in order and up to the first addPoint that throws: the first
\* half of the iterations, then the second half (a long batch does not
\* nest as deep as it is long)
RECURSIVE InsertRange(_, _, _, _, _, _, _)
InsertRange(index, chunkMap, docs, embeddings, lo, hi, currentIdx) ==
    IF lo > hi
    THEN [index |-> index, chunkMap |-> chunkMap, threw |-> FALSE]
    ELSE IF lo = hi
    THEN IF ~addPointFits(index, currentIdx)
         THEN [index |-> index, chunkMap |-> chunkMap, threw |-> TRUE]
         ELSE [index |-> addPoint(index, embeddings[lo], currentIdx),
               chunkMap |-> MapSet(chunkMap, currentIdx,
                                   ChunkOf(docs[lo], currentIdx)),
               threw |-> FALSE]
    ELSE LET mid == (lo + hi) \div 2
             first == InsertRange(index, chunkMap, docs, embeddings,
                                  lo, mid, currentIdx)
         IN  IF first.threw THEN first
             ELSE InsertRange(first.index, first.chunkMap, docs, embeddings,
                              mid + 1, hi, currentIdx + (mid - lo + 1))

\* the insertion loop from iteration i on: [index, chunkMap, threw]
InsertLoop(index, chunkMap, docs, embeddings, i, currentIdx) ==
    InsertRange(index, chunkMap, docs, embeddings, i, Len(embeddings),
                currentIdx)

\* an open index that is grown to what the batch requires and no further
IndexForBatchExact(st, knowledgeBase, batchSize) ==
    IF knowledgeBase \notin DOMAIN st.indices
    THEN initIndex(Max2(batchSize + CapacitySlack, MinInitialCapacity))
    ELSE LET index == st.indices[knowledgeBase]
             required == getCurrentCount(index) + batchSize
         IN  IF required > getMaxElements(index)
             THEN resizeIndex(index, Max2(required,
                                          (getMaxElements(index) * 3) \div 2))
             ELSE index

\* the index the batch is inserted into: a new one, or the open one, grown
\* when the batch does not fit
IndexForBatch(st, knowledgeBase, batchSize) ==
    IF knowledgeBase \notin DOMAIN st.indices
    THEN initIndex(Max2(batchSize + CapacitySlack, MinInitialCapacity))
    ELSE LET index == st.indices[knowledgeBase]
             required == getCurrentCount(index) + batchSize
         IN  IF required > getMaxElements(index)
             THEN resizeIndex(index,
                      Max2(required + CapacitySlack,
                           (getMaxElements(index) * 3) \div 2))
             ELSE index

\* a batch that always starts from an empty chunk map
ChunkMapForBatchEmpty(st, knowledgeBase) == EmptyMap

\* the chunk map the batch is recorded in: this.chunkMaps.get(kb) || {}
ChunkMapForBatch(st, knowledgeBase) ==
    IF knowledgeBase \in DOMAIN st.chunkMaps
    THEN st.chunkMaps[knowledgeBase] ELSE EmptyMap

\* addDocumentsToKB: [st, threw]
addDocumentsToKB(st, knowledgeBase, docs) ==
    LET embeddings == getEmbeddings([i \in DOMAIN docs |-> docs[i].content])
        index == IndexForBatch(st, knowledgeBase, Len(embeddings))
        chunkMap == ChunkMapForBatch(st, knowledgeBase)
        ins == InsertLoop(index, chunkMap, docs, embeddings, 1,
                          getCurrentCount(index))
        inMemory == [st EXCEPT
                        !.indices = MapSet(@, knowledgeBase, ins.index),
                        !.chunkMaps = MapSet(@, knowledgeBase, ins.chunkMap)]
    IN  IF ins.threw
        THEN [threw |-> TRUE,
              st |-> [st EXCEPT
                  !.indices = MapSet(@, knowledgeBase, ins.index),
                  !.chunkMaps = IF knowledgeBase \in DOMAIN st.chunkMaps
                                THEN MapSet(@, knowledgeBase, ins.chunkMap)
                                ELSE @]]
        ELSE [threw |-> FALSE,
              st |-> saveChunkMap(saveIndex(inMemory, knowledgeBase, ins.index),
                                  knowledgeBase, ins.chunkMap)]

\* the knowledge bases of a batch in order of first appearance
RECURSIVE GroupOrder(_)
GroupOrder(docs) ==
    IF docs = <<>> THEN <<>>
    ELSE <<docs[1].knowledgeBase>>
         \o GroupOrder(SelectSeq(Tail(docs),
                LAMBDA d : d.knowledgeBase # docs[1].knowledgeBase))

GroupDocs(docs, knowledgeBase) ==
    SelectSeq(docs, LAMBDA d : d.knowledgeBase = knowledgeBase)

\* the loop of addDocuments over the groups: [st, threw]
RECURSIVE AddGroups(_, _, _)
AddGroups(st, docs, groups) ==
    IF groups = <<>> THEN [threw |-> FALSE, st |-> st]
    ELSE LET r == addDocumentsToKB(st, groups[1], GroupDocs(docs, groups[1]))
         IN  IF r.threw THEN r ELSE AddGroups(r.st, docs, Tail(groups))

(***************************************************************************)
(* RAGService.search, its pure parts.                                      *)
(***************************************************************************)
\* options.k || 10
kInputOf(k) == IF k = 0 THEN DefaultK ELSE k

\* an effective k that ignores the count of the index
effectiveKOfRequest(kInput, index) == Max2(1, kInput)

\* an effective k that ignores the requested k
effectiveKOfCount(kInput, index) == Max2(1, getCurrentCount(index))

effectiveK(kInput, index) ==
    LET currentCount == getCurrentCount(index)
        maxElements == getMaxElements(index)
        value == Min2(kInput, IF currentCount = 0 THEN 1 ELSE currentCount)
    IN  Max2(1, IF maxElements # 0 /\ value > maxElements
                THEN maxElements ELSE value)

\* one neighbour as a RAGResult
ResultOf(chunkMap, neighbor) ==
    [id      |-> IF neighbor.label \in DOMAIN chunkMap
                 THEN chunkMap[neighbor.label].id
                 ELSE "chunk-" \o ToString(neighbor.label),
     content |-> IF neighbor.label \in DOMAIN chunkMap
                 THEN chunkMap[neighbor.label].text ELSE "",
     score   |-> Similarity(neighbor.distance)]

\* index.searchKnn, the mapping to results and the threshold filter
QueryIndex(index, chunkMap, queryVector, kInput, threshold) ==
    LET neighbors == searchKnn(index, queryVector, effectiveK(kInput, index))
        results == [i \in DOMAIN neighbors |-> ResultOf(chunkMap, neighbors[i])]
    IN  SelectSeq(results, LAMBDA r : FracGeq(r.score, threshold))

recordMetric(s, duration) ==
    [totalSearches |-> s.totalSearches + 1,
     avgSearchTime |-> (s.avgSearchTime * s.totalSearches + duration)
                           \div (s.totalSearches + 1)]

(***************************************************************************)
(* State.                                                                  *)
(***************************************************************************)
Registry ==
    [indices |-> indices, chunkMaps |-> chunkMaps,
     indexFiles |-> indexFiles, chunkFiles |-> chunkFiles]

SetRegistry(st) ==
    /\ indices' = st.indices
    /\ chunkMaps' = st.chunkMaps
    /\ indexFiles' = st.indexFiles
    /\ chunkFiles' = st.chunkFiles

\* the calls that can be in flight together
Procs == 1..MaxInFlight

\* a call that has not been made: no position, no locals
NoProc ==
    [op |-> "new", pc |-> "new", knowledgeBase |-> None, docs |-> <<>>,
     query |-> None, gen |-> 0, index |-> initIndex(0), chunkMap |-> EmptyMap,
     snap |-> initIndex(0), text |-> <<>>, found |-> FALSE, loaded |-> FALSE,
     result |-> <<>>, error |-> None, afterRemove |-> FALSE]

NoCall ==
    [op |-> "new", knowledgeBase |-> None, query |-> None, k |-> 0,
     threshold |-> <<0, 1>>, result |-> <<>>,
     hit |-> FALSE, effectiveK |-> 0, entryAge |-> -1, firstKey |-> <<>>,
     error |-> None, fetched |-> 0, docs |-> <<>>]

\* the constructor
Init ==
    /\ config = [cacheSize |-> DefaultCacheSize, cacheTTL |-> DefaultCacheTTL]
    /\ indices = EmptyMap
    /\ chunkMaps = EmptyMap
    /\ cache = <<>>
    /\ hits = 0
    /\ misses = 0
    /\ maxSize = config.cacheSize
    /\ ttl = config.cacheTTL
    /\ stats = [totalSearches |-> 0, avgSearchTime |-> 0]
    /\ indexFiles = EmptyMap
    /\ chunkFiles = EmptyMap
    /\ now = 0
    /\ calls = 0
    /\ last = NoCall
    /\ procs = [p \in Procs |-> NoProc]
    /\ gens = EmptyMap

\* one more call is made
Called ==
    /\ calls < MaxCalls
    /\ calls' = calls + 1

\* the configurations a caller passes to initialize: the fields supplied
ConfigInputs == {EmptyMap, [cacheSize |-> 1]}

initialize(cfg) ==
    /\ Called
    /\ config' = [f \in DOMAIN config |->
                     IF f \in DOMAIN cfg THEN cfg[f] ELSE config[f]]
    /\ last' = [NoCall EXCEPT !.op = "initialize"]
    /\ UNCHANGED <<indices, chunkMaps, cache, hits, misses, maxSize, ttl,
                   stats, indexFiles, chunkFiles, now, procs, gens>>

search(query, knowledgeBase, k, threshold) ==
    LET kInput == kInputOf(k)
        queryVector == getEmbedding(query)
        key == getCacheKey(knowledgeBase, queryVector, kInput)
        cached == CacheGet(cache, key, now, ttl)
        loaded == getOrLoadIndex(Registry, knowledgeBase)
        index == loaded.st.indices[knowledgeBase]
        chunkMap == IF knowledgeBase \in DOMAIN loaded.st.chunkMaps
                    THEN loaded.st.chunkMaps[knowledgeBase] ELSE EmptyMap
        results == QueryIndex(index, chunkMap, queryVector, kInput, threshold)
        call == [NoCall EXCEPT !.op = "search", !.fetched = 1,
                               !.knowledgeBase = knowledgeBase,
                               !.query = query, !.k = k,
                               !.threshold = threshold,
                               !.entryAge = EntryAge(cache, key, now)]
    IN  /\ Called
        /\ IF cached.hit
           THEN /\ hits' = hits + 1
                /\ last' = [call EXCEPT !.result = cached.result, !.hit = TRUE]
                /\ UNCHANGED <<cache, misses, stats, indices, chunkMaps,
                               indexFiles, chunkFiles>>
           ELSE /\ misses' = misses + 1
                /\ hits' = hits
                /\ SetRegistry(loaded.st)
                /\ IF ~loaded.found
                   THEN /\ cache' = cached.cache
                        /\ last' = call
                        /\ UNCHANGED stats
                   ELSE /\ cache' = CacheSet(cached.cache, key, results,
                                             now, maxSize)
                        /\ stats' = recordMetric(stats, 0)
                        /\ last' = [call EXCEPT
                               !.result = results,
                               !.effectiveK = effectiveK(kInput, index),
                               !.firstKey = FirstKey(cached.cache, maxSize)]
        /\ UNCHANGED <<config, maxSize, ttl, now, procs, gens>>

\* the documents the knowledge base holds in memory
OpenCount(knowledgeBase) ==
    IF knowledgeBase \in DOMAIN indices
    THEN getCurrentCount(indices[knowledgeBase]) ELSE 0

addDocuments(docs) ==
    /\ Called
    /\ docs # <<>>
    /\ \A kb \in {docs[i].knowledgeBase : i \in DOMAIN docs} :
          OpenCount(kb) + Len(GroupDocs(docs, kb)) <= MaxDocs
    /\ SetRegistry(AddGroups(Registry, docs, GroupOrder(docs)).st)
    /\ last' = [NoCall EXCEPT
           !.op = "addDocuments",
           !.docs = docs,
           !.fetched = Len(GroupOrder(docs)),
           !.error = IF AddGroups(Registry, docs, GroupOrder(docs)).threw
                     THEN "CapacityExceeded" ELSE None]
    /\ UNCHANGED <<config, cache, hits, misses, maxSize, ttl, stats, now,
                   procs, gens>>

removeKnowledgeBase(name) ==
    /\ Called
    /\ indices' = MapDelete(indices, name)
    /\ chunkMaps' = MapDelete(chunkMaps, name)
    /\ IF pathJoin(name) \in DOMAIN indexFiles
       THEN /\ indexFiles' = MapDelete(indexFiles, pathJoin(name))
            /\ chunkFiles' = MapDelete(chunkFiles, pathJoin(name))
       ELSE UNCHANGED <<indexFiles, chunkFiles>>
    /\ last' = [NoCall EXCEPT !.op = "removeKnowledgeBase",
                              !.knowledgeBase = name]
    /\ UNCHANGED <<config, cache, hits, misses, maxSize, ttl, stats, now,
                   procs, gens>>

\* a shutdown that writes no index file
SavedIndicesKept(st) == st.indexFiles

\* the index files after shutdown has saved every open index (of two open
\* names that give one file the Map order decides; a specification with
\* shutdown opens one name per file)
SavedIndices(st) ==
    LET saved == {pathJoin(name) : name \in DOMAIN st.indices}
    IN  [file \in DOMAIN st.indexFiles \cup saved |->
            IF file \in saved
            THEN st.indices[CHOOSE name \in DOMAIN st.indices :
                                pathJoin(name) = file]
            ELSE st.indexFiles[file]]

\* the state a search finds after a shutdown of the state st
AfterShutdown(st) ==
    [indices |-> EmptyMap, chunkMaps |-> EmptyMap,
     indexFiles |-> SavedIndices(st), chunkFiles |-> st.chunkFiles]

shutdown ==
    /\ Called
    /\ indexFiles' = SavedIndices(Registry)
    /\ cache' = <<>>
    /\ hits' = 0
    /\ misses' = 0
    /\ indices' = EmptyMap
    /\ chunkMaps' = EmptyMap
    /\ last' = [NoCall EXCEPT !.op = "shutdown"]
    /\ UNCHANGED <<config, maxSize, ttl, stats, chunkFiles, now, procs, gens>>

\* time passes between two calls
Tick ==
    /\ now < MaxTime
    /\ now' = now + TickStep
    /\ last' = [NoCall EXCEPT !.op = "tick"]
    /\ UNCHANGED <<config, indices, chunkMaps, cache, hits, misses, maxSize,
                   ttl, stats, indexFiles, chunkFiles, calls, procs, gens>>

Next ==
    \/ \E cfg \in ConfigInputs : initialize(cfg)
    \/ \E query \in Queries, knowledgeBase \in KBs, k \in Ks,
          threshold \in Thresholds :
           search(query, knowledgeBase, k, threshold)
    \/ \E docs \in Batches : addDocuments(docs)
    \/ \E name \in KBs : removeKnowledgeBase(name)
    \/ shutdown
    \/ Tick

Spec == Init /\ [][Next]_vars

(***************************************************************************)
(* The SearchCache class on its own: constructed with any maxSize and ttl, *)
(* its methods called in any order with any key.                           *)
(***************************************************************************)
CacheTTLs == {TickStep, DefaultCacheTTL}

\* the result lists the callers store
CacheResults ==
    {<<>>, <<[id |-> "doc-0", content |-> "a", score |-> <<1, 1>>]>>}

InitCache ==
    /\ maxSize \in 1..MaxCacheSize
    /\ ttl \in CacheTTLs
    /\ config = [cacheSize |-> maxSize, cacheTTL |-> ttl]
    /\ indices = EmptyMap
    /\ chunkMaps = EmptyMap
    /\ cache = <<>>
    /\ hits = 0
    /\ misses = 0
    /\ stats = [totalSearches |-> 0, avgSearchTime |-> 0]
    /\ indexFiles = EmptyMap
    /\ chunkFiles = EmptyMap
    /\ now = 0
    /\ calls = 0
    /\ last = NoCall
    /\ procs = [p \in Procs |-> NoProc]
    /\ gens = EmptyMap

CacheFrame == UNCHANGED <<config, indices, chunkMaps, maxSize, ttl, stats,
                          indexFiles, chunkFiles, now, procs, gens>>

\* SearchCache.get
get(knowledgeBase, query, k) ==
    LET key == getCacheKey(knowledgeBase, getEmbedding(query), k)
        r == CacheGet(cache, key, now, ttl)
    IN  /\ Called
        /\ cache' = r.cache
        /\ hits' = IF r.hit THEN hits + 1 ELSE hits
        /\ misses' = IF r.hit THEN misses ELSE misses + 1
        /\ last' = [NoCall EXCEPT !.op = "get",
                                  !.knowledgeBase = knowledgeBase,
                                  !.query = query, !.k = k,
                                  !.hit = r.hit, !.result = r.result,
                                  !.entryAge = EntryAge(cache, key, now)]
        /\ CacheFrame

\* SearchCache.set
set(knowledgeBase, query, k, result) ==
    LET key == getCacheKey(knowledgeBase, getEmbedding(query), k)
    IN  /\ Called
        /\ cache' = CacheSet(cache, key, result, now, maxSize)
        /\ last' = [NoCall EXCEPT !.op = "set",
                                  !.knowledgeBase = knowledgeBase,
                                  !.query = query, !.k = k,
                                  !.result = result,
                                  !.firstKey = FirstKey(cache, maxSize)]
        /\ UNCHANGED <<hits, misses>>
        /\ CacheFrame

\* SearchCache.clear
clear ==
    /\ Called
    /\ cache' = <<>>
    /\ hits' = 0
    /\ misses' = 0
    /\ last' = [NoCall EXCEPT !.op = "clear"]
    /\ CacheFrame

NextCache ==
    \/ \E knowledgeBase \in KBs, query \in Texts, k \in {1, DefaultK} :
           get(knowledgeBase, query, k)
    \/ \E knowledgeBase \in KBs, query \in Texts, k \in {1, DefaultK},
          result \in CacheResults :
           set(knowledgeBase, query, k, result)
    \/ clear
    \/ Tick

SpecCache == InitCache /\ [][NextCache]_vars

(***************************************************************************)
(* The calls stepped at their await points.  A call in flight occupies a   *)
(* slot of procs; pc names the promise it waits for.  Between two awaits   *)
(* the code of one call runs without interruption.                         *)
(*                                                                         *)
(* An index and its chunk map are objects shared by reference: gen is the  *)
(* identity of the pair a call holds, gens[kb] the identity of the pair    *)
(* registered in indices / chunkMaps.  index and chunkMap of a slot are    *)
(* the contents of the objects the call holds, kept current while the      *)
(* objects are mutated through the registry.                               *)
(***************************************************************************)
InFlight(p) == procs[p].pc \notin {"new", "done"}

\* no call is in flight
Quiescent == \A p \in Procs : ~InFlight(p)

\* a removeKnowledgeBase has returned (history, for the properties)
RemoveReturned ==
    \E p \in Procs : procs[p].op = "removeKnowledgeBase" /\ procs[p].pc = "done"

\* the object identities in use, and the smallest one that is not
LiveGens ==
    {procs[p].gen : p \in Procs}
        \cup {gens[kb] : kb \in DOMAIN indices \cap DOMAIN gens}

FreshGen ==
    CHOOSE g \in 1..(MaxInFlight + Cardinality(KBs) + 1) :
        g \notin LiveGens /\ \A h \in 1..(g - 1) : h \in LiveGens

\* the slots used in order; a call is made
Begin(p, call) ==
    /\ Called
    /\ procs[p].pc = "new"
    /\ \A q \in Procs : q < p => procs[q].pc # "new"
    /\ procs' = [procs EXCEPT ![p] = [call EXCEPT !.afterRemove = RemoveReturned]]

\* the call of slot p returns: its locals are dropped
Return(ps, p, result, error) ==
    [ps EXCEPT ![p] = [NoProc EXCEPT !.op = ps[p].op, !.pc = "done",
                                     !.knowledgeBase = ps[p].knowledgeBase,
                                     !.docs = ps[p].docs,
                                     !.query = ps[p].query,
                                     !.loaded = ps[p].loaded,
                                     !.afterRemove = ps[p].afterRemove,
                                     !.result = result, !.error = error]]

\* the objects of identity gen now hold index and chunkMap
Mutated(ps, gen, index, chunkMap) ==
    [q \in Procs |->
        IF ps[q].gen = gen
        THEN [ps[q] EXCEPT !.index = index, !.chunkMap = chunkMap]
        ELSE ps[q]]

ServiceFrame == UNCHANGED <<config, maxSize, ttl, now, last>>

CacheUnchanged == UNCHANGED <<cache, hits, misses, stats>>

\* addDocuments is called: up to the fetch of getEmbeddings (lines 275-289,
\* 424-425, 509)
addDocumentsCall(p, docs) ==
    /\ docs # <<>>
    /\ Begin(p, [NoProc EXCEPT !.op = "addDocuments", !.pc = "getEmbeddings",
                               !.knowledgeBase = docs[1].knowledgeBase,
                               !.docs = docs])
    /\ UNCHANGED <<indices, chunkMaps, indexFiles, chunkFiles, gens>>
    /\ CacheUnchanged /\ ServiceFrame

\* the embeddings have arrived: lines 428-472 and the call of writeIndex
addDocumentsInsert(p) ==
    LET kb == procs[p].knowledgeBase
        docs == procs[p].docs
        embeddings == getEmbeddings([i \in DOMAIN docs |-> docs[i].content])
        gen == IF kb \in DOMAIN indices THEN gens[kb] ELSE FreshGen
        index == IndexForBatch(Registry, kb, Len(embeddings))
        chunkMap == ChunkMapForBatch(Registry, kb)
        ins == InsertLoop(index, chunkMap, docs, embeddings, 1,
                          getCurrentCount(index))
        held == [procs EXCEPT ![p].gen = gen]
    IN  /\ procs[p].op = "addDocuments" /\ procs[p].pc = "getEmbeddings"
        /\ indices' = MapSet(indices, kb, ins.index)
        /\ gens' = MapSet(gens, kb, gen)
        /\ IF ins.threw
           THEN /\ chunkMaps' = IF kb \in DOMAIN chunkMaps
                                THEN MapSet(chunkMaps, kb, ins.chunkMap)
                                ELSE chunkMaps
                /\ procs' = Return(Mutated(held, gen, ins.index, ins.chunkMap),
                                   p, <<>>, "CapacityExceeded")
           ELSE /\ chunkMaps' = MapSet(chunkMaps, kb, ins.chunkMap)
                /\ procs' = [Mutated(held, gen, ins.index, ins.chunkMap)
                                EXCEPT ![p].pc = "writeIndex",
                                       ![p].snap = ins.index]
        /\ UNCHANGED <<indexFiles, chunkFiles, calls>>
        /\ CacheUnchanged /\ ServiceFrame

\* writeIndex has finished (line 475): the file holds the index as the
\* writer found it, at the call or later; then JSON.stringify and the call
\* of fs.writeFile (lines 476, 494)
addDocumentsIndexSaved(p) ==
    /\ procs[p].op = "addDocuments" /\ procs[p].pc = "writeIndex"
    /\ \E written \in {procs[p].snap, procs[p].index} :
          indexFiles' = MapSet(indexFiles,
                               pathJoin(procs[p].knowledgeBase), written)
    /\ procs' = [procs EXCEPT ![p].pc = "writeFile",
                              ![p].text = JSONstringify(procs[p].chunkMap)]
    /\ UNCHANGED <<indices, chunkMaps, chunkFiles, gens, calls>>
    /\ CacheUnchanged /\ ServiceFrame

\* fs.writeFile has finished (line 494) and addDocuments returns
addDocumentsChunkMapSaved(p) ==
    /\ procs[p].op = "addDocuments" /\ procs[p].pc = "writeFile"
    /\ chunkFiles' = MapSet(chunkFiles, pathJoin(procs[p].knowledgeBase),
                            procs[p].text)
    /\ procs' = Return(procs, p, <<>>, None)
    /\ UNCHANGED <<indices, chunkMaps, indexFiles, gens, calls>>
    /\ CacheUnchanged /\ ServiceFrame

\* search({query, knowledgeBase}) is called: up to the fetch (lines 197-203)
searchCall(p, query, knowledgeBase) ==
    /\ Begin(p, [NoProc EXCEPT !.op = "search", !.pc = "getEmbeddings",
                               !.knowledgeBase = knowledgeBase,
                               !.query = query])
    /\ UNCHANGED <<indices, chunkMaps, indexFiles, chunkFiles, gens>>
    /\ CacheUnchanged /\ ServiceFrame

\* the query vector has arrived: the cache lookup, and on a miss
\* getOrLoadIndex up to its first await (lines 206-213, 388-402)
searchLookup(p) ==
    LET kb == procs[p].knowledgeBase
        key == getCacheKey(kb, getEmbedding(procs[p].query), kInputOf(0))
        cached == CacheGet(cache, key, now, ttl)
    IN  /\ procs[p].op = "search" /\ procs[p].pc = "getEmbeddings"
        /\ IF cached.hit
           THEN /\ hits' = hits + 1
                /\ procs' = Return(procs, p, cached.result, None)
                /\ UNCHANGED <<cache, misses>>
           ELSE /\ misses' = misses + 1
                /\ cache' = cached.cache
                /\ hits' = hits
                /\ procs' = IF kb \in DOMAIN indices
                            THEN [procs EXCEPT ![p].pc = "resume",
                                               ![p].found = TRUE,
                                               ![p].gen = gens[kb],
                                               ![p].index = indices[kb]]
                            ELSE [procs EXCEPT ![p].pc = "readIndex"]
        /\ UNCHANGED <<indices, chunkMaps, indexFiles, chunkFiles, gens,
                       stats, calls>>
        /\ ServiceFrame

\* readIndex has finished (line 402): into a new index object, or with an
\* error that getOrLoadIndex turns into null (lines 413-416)
searchIndexRead(p) ==
    LET kb == procs[p].knowledgeBase
    IN  /\ procs[p].op = "search" /\ procs[p].pc = "readIndex"
        /\ procs' = IF pathJoin(kb) \in DOMAIN indexFiles
                    THEN [procs EXCEPT ![p].pc = "readFile",
                                       ![p].gen = FreshGen,
                                       ![p].index = indexFiles[pathJoin(kb)]]
                    ELSE [procs EXCEPT ![p].pc = "resume"]
        /\ UNCHANGED <<indices, chunkMaps, indexFiles, chunkFiles, gens, calls>>
        /\ CacheUnchanged /\ ServiceFrame

\* fs.readFile has finished (line 406): JSON.parse and the registration of
\* the loaded objects (lines 407-412), or an error turned into null
searchChunkMapRead(p) ==
    LET kb == procs[p].knowledgeBase
        file == pathJoin(kb)
    IN  /\ procs[p].op = "search" /\ procs[p].pc = "readFile"
        /\ IF file \in DOMAIN chunkFiles /\ JSONvalid(chunkFiles[file])
           THEN /\ indices' = MapSet(indices, kb, procs[p].index)
                /\ chunkMaps' = MapSet(chunkMaps, kb,
                                       JSONparse(chunkFiles[file]))
                /\ gens' = MapSet(gens, kb, procs[p].gen)
                /\ procs' = [procs EXCEPT
                                ![p].pc = "resume", ![p].found = TRUE,
                                ![p].loaded = TRUE,
                                ![p].chunkMap = JSONparse(chunkFiles[file])]
           ELSE /\ procs' = [procs EXCEPT ![p].pc = "resume", ![p].gen = 0,
                                          ![p].index = initIndex(0)]
                /\ UNCHANGED <<indices, chunkMaps, gens>>
        /\ UNCHANGED <<indexFiles, chunkFiles, calls>>
        /\ CacheUnchanged /\ ServiceFrame

\* getOrLoadIndex has returned: the query of the index search holds, with
\* the chunk map registered now (lines 214-262)
searchQuery(p) ==
    LET kb == procs[p].knowledgeBase
        queryVector == getEmbedding(procs[p].query)
        key == getCacheKey(kb, queryVector, kInputOf(0))
        chunkMap == IF kb \in DOMAIN chunkMaps THEN chunkMaps[kb] ELSE EmptyMap
        results == QueryIndex(procs[p].index, chunkMap, queryVector,
                              kInputOf(0), <<0, 1>>)
    IN  /\ procs[p].op = "search" /\ procs[p].pc = "resume"
        /\ IF procs[p].found
           THEN /\ cache' = CacheSet(cache, key, results, now, maxSize)
                /\ stats' = recordMetric(stats, 0)
                /\ procs' = Return(procs, p, results, None)
           ELSE /\ procs' = Return(procs, p, <<>>, None)
                /\ UNCHANGED <<cache, stats>>
        /\ UNCHANGED <<indices, chunkMaps, indexFiles, chunkFiles, gens,
                       hits, misses, calls>>
        /\ ServiceFrame

\* removeKnowledgeBase is called: the Maps, up to the first unlink
\* (lines 324-332)
removeKnowledgeBaseCall(p, name) ==
    /\ Begin(p, [NoProc EXCEPT !.op = "removeKnowledgeBase",
                               !.pc = "unlinkIndex", !.knowledgeBase = name])
    /\ indices' = MapDelete(indices, name)
    /\ chunkMaps' = MapDelete(chunkMaps, name)
    /\ gens' = MapDelete(gens, name)
    /\ UNCHANGED <<indexFiles, chunkFiles>>
    /\ CacheUnchanged /\ ServiceFrame

\* the first unlink has finished (line 332): the second one is called, or
\* the error is swallowed and the call returns (lines 335-337)
removeKnowledgeBaseIndexUnlinked(p) ==
    LET file == pathJoin(procs[p].knowledgeBase)
    IN  /\ procs[p].op = "removeKnowledgeBase" /\ procs[p].pc = "unlinkIndex"
        /\ IF file \in DOMAIN indexFiles
           THEN /\ indexFiles' = MapDelete(indexFiles, file)
                /\ procs' = [procs EXCEPT ![p].pc = "unlinkFile"]
           ELSE /\ procs' = Return(procs, p, <<>>, None)
                /\ UNCHANGED indexFiles
        /\ UNCHANGED <<indices, chunkMaps, chunkFiles, gens, calls>>
        /\ CacheUnchanged /\ ServiceFrame

\* the second unlink has finished (line 333) and the call returns
removeKnowledgeBaseChunkMapUnlinked(p) ==
    /\ procs[p].op = "removeKnowledgeBase" /\ procs[p].pc = "unlinkFile"
    /\ chunkFiles' = MapDelete(chunkFiles, pathJoin(procs[p].knowledgeBase))
    /\ procs' = Return(procs, p, <<>>, None)
    /\ UNCHANGED <<indices, chunkMaps, indexFiles, gens, calls>>
    /\ CacheUnchanged /\ ServiceFrame

\* the knowledge bases a working directory holds when the service is
\* constructed over it: none, or those an earlier run has persisted
PersistedRuns ==
    {[indices |-> EmptyMap, chunkMaps |-> EmptyMap,
      indexFiles |-> EmptyMap, chunkFiles |-> EmptyMap]}
    \cup {AfterShutdown(addDocumentsToKB(
              [indices |-> EmptyMap, chunkMaps |-> EmptyMap,
               indexFiles |-> EmptyMap, chunkFiles |-> EmptyMap],
              doc.knowledgeBase, <<doc>>).st) :
          doc \in {d \in Docs : d.content = "a"}}

\* the constructor, over a working directory that may hold persisted files
InitAsync ==
    /\ config = [cacheSize |-> DefaultCacheSize, cacheTTL |-> DefaultCacheTTL]
    /\ \E st \in PersistedRuns :
          /\ indices = st.indices
          /\ chunkMaps = st.chunkMaps
          /\ indexFiles = st.indexFiles
          /\ chunkFiles = st.chunkFiles
    /\ cache = <<>>
    /\ hits = 0
    /\ misses = 0
    /\ maxSize = config.cacheSize
    /\ ttl = config.cacheTTL
    /\ stats = [totalSearches |-> 0, avgSearchTime |-> 0]
    /\ now = 0
    /\ calls = 0
    /\ last = NoCall
    /\ procs = [p \in Procs |-> NoProc]
    /\ gens = EmptyMap

NextAsync ==
    \/ \E p \in Procs, doc \in Docs : addDocumentsCall(p, <<doc>>)
    \/ \E p \in Procs : addDocumentsInsert(p)
    \/ \E p \in Procs : addDocumentsIndexSaved(p)
    \/ \E p \in Procs : addDocumentsChunkMapSaved(p)
    \/ \E p \in Procs, query \in Queries, knowledgeBase \in KBs :
           searchCall(p, query, knowledgeBase)
    \/ \E p \in Procs : searchLookup(p)
    \/ \E p \in Procs : searchIndexRead(p)
    \/ \E p \in Procs : searchChunkMapRead(p)
    \/ \E p \in Procs : searchQuery(p)
    \/ \E p \in Procs, name \in KBs : removeKnowledgeBaseCall(p, name)
    \/ \E p \in Procs : removeKnowledgeBaseIndexUnlinked(p)
    \/ \E p \in Procs : removeKnowledgeBaseChunkMapUnlinked(p)
    \/ Quiescent /\ shutdown

SpecAsync == InitAsync /\ [][NextAsync]_vars

(***************************************************************************)
(* The service in an environment that fails: the embedding provider may    *)
(* answer a request with a non-success status, and the working directory   *)
(* may hold the files of a knowledge base in part or damaged (a run that   *)
(* ended between or inside the two writes of lines 475-476).               *)
(***************************************************************************)

EnvDocs == [knowledgeBase : EnvKBs, content : {"a"}, id : DocIds]

EnvBatches == SeqsUpTo(EnvDocs, MaxBatch)

\* the working directories: what an earlier run persisted, whole, in part,
\* or with a chunk-map file that is not JSON
WorkDirs ==
    PersistedRuns
    \cup UNION {
        {[st EXCEPT !.chunkFiles = MapDelete(@, kb)],
         [st EXCEPT !.indexFiles = MapDelete(@, kb)],
         [st EXCEPT !.chunkFiles = MapSet(@, kb, MalformedText)]} :
        st \in {t \in PersistedRuns : t.indexFiles # EmptyMap},
        kb \in KBs}

InitEnv ==
    /\ config = [cacheSize |-> DefaultCacheSize, cacheTTL |-> DefaultCacheTTL]
    /\ \E st \in WorkDirs :
          /\ indices = st.indices
          /\ chunkMaps = st.chunkMaps
          /\ indexFiles = st.indexFiles
          /\ chunkFiles = st.chunkFiles
    /\ cache = <<>>
    /\ hits = 0
    /\ misses = 0
    /\ maxSize = config.cacheSize
    /\ ttl = config.cacheTTL
    /\ stats = [totalSearches |-> 0, avgSearchTime |-> 0]
    /\ now = 0
    /\ calls = 0
    /\ last = NoCall
    /\ procs = [p \in Procs |-> NoProc]
    /\ gens = EmptyMap

\* search when the provider answers with a non-success status: getEmbeddings
\* throws (lines 521-523), search logs and rethrows (lines 259-262)
searchRejected(query, knowledgeBase, k, threshold) ==
    /\ Called
    /\ last' = [NoCall EXCEPT !.op = "search", !.fetched = 1,
                              !.knowledgeBase = knowledgeBase,
                              !.query = query, !.k = k,
                              !.threshold = threshold,
                              !.error = "EmbeddingError"]
    /\ UNCHANGED <<config, indices, chunkMaps, cache, hits, misses, maxSize,
                   ttl, stats, indexFiles, chunkFiles, now, procs, gens>>

RECURSIVE AddGroupsRejected(_, _, _, _)

\* a rejected batch that is inserted before the provider's answer is read
AddGroupsRejectedLate(st, docs, groups, failAt) ==
    [st |-> addDocumentsToKB(st, groups[1], GroupDocs(docs, groups[1])).st,
     knowledgeBase |-> groups[1], error |-> "EmbeddingError"]

\* the loop of addDocuments over the groups when the provider answers the
\* failAt-th request with a non-success status: [st, knowledgeBase, error],
\* knowledgeBase being the group whose call of addDocumentsToKB threw
AddGroupsRejected(st, docs, groups, failAt) ==
    IF failAt <= 1
    THEN [st |-> st, knowledgeBase |-> groups[1], error |-> "EmbeddingError"]
    ELSE LET r == addDocumentsToKB(st, groups[1], GroupDocs(docs, groups[1]))
         IN  IF r.threw
             THEN [st |-> r.st, knowledgeBase |-> groups[1],
                   error |-> "CapacityExceeded"]
             ELSE AddGroupsRejected(r.st, docs, Tail(groups), failAt - 1)

\* addDocuments when the provider rejects the request of the failAt-th group
addDocumentsRejected(docs, failAt) ==
    /\ Called
    /\ failAt \in 1..Len(GroupOrder(docs))
    /\ \A kb \in EnvKBs : OpenCount(kb) + Len(GroupDocs(docs, kb)) <= MaxDocs
    /\ LET r == AddGroupsRejected(Registry, docs, GroupOrder(docs), failAt)
       IN  /\ SetRegistry(r.st)
           /\ last' = [NoCall EXCEPT !.op = "addDocuments",
                                     !.knowledgeBase = r.knowledgeBase,
                                     !.fetched = failAt,
                                     !.error = r.error]
    /\ UNCHANGED <<config, cache, hits, misses, maxSize, ttl, stats, now,
                   procs, gens>>

NextEnv ==
    \/ \E query \in Queries, knowledgeBase \in EnvKBs :
           search(query, knowledgeBase, 0, <<0, 1>>)
    \/ \E query \in Queries, knowledgeBase \in EnvKBs :
           searchRejected(query, knowledgeBase, 0, <<0, 1>>)
    \/ \E docs \in EnvBatches : addDocuments(docs)
    \/ \E docs \in EnvBatches, failAt \in 1..MaxBatch :
           addDocumentsRejected(docs, failAt)
    \/ shutdown

SpecEnv == InitEnv /\ [][NextEnv]_vars

(***************************************************************************)
(* Documents with ids of the caller: updateDocument and removeDocument.    *)
(***************************************************************************)
UpdateIds == {"d1"}

UpdateDocs == [knowledgeBase : KBs, content : Texts, id : DocIds \cup UpdateIds]

UpdateBatches == SeqsUpTo(UpdateDocs, MaxBatch)

\* the Partial<RAGDocument> passed to updateDocument; None: field not given
PartialDocs == [knowledgeBase : KBs \cup {None}, content : Texts \cup {None}]

\* removeDocument(id): a log line
removeDocument(id) ==
    /\ Called
    /\ last' = [NoCall EXCEPT !.op = "removeDocument"]
    /\ UNCHANGED <<config, indices, chunkMaps, cache, hits, misses, maxSize,
                   ttl, stats, indexFiles, chunkFiles, now, procs, gens>>

\* updateDocument(id, doc): removeDocument(id), then addDocument
updateDocument(id, doc) ==
    LET added == <<[knowledgeBase |-> doc.knowledgeBase,
                    content |-> doc.content, id |-> id]>>
    IN  /\ Called
        /\ IF doc.knowledgeBase # None /\ doc.content # None
           THEN /\ OpenCount(doc.knowledgeBase) + 1 <= MaxDocs
                /\ SetRegistry(AddGroups(Registry, added,
                                         GroupOrder(added)).st)
           ELSE UNCHANGED <<indices, chunkMaps, indexFiles, chunkFiles>>
        /\ last' = [NoCall EXCEPT
               !.op = "updateDocument",
               !.knowledgeBase = doc.knowledgeBase,
               !.fetched = IF doc.knowledgeBase # None /\ doc.content # None
                           THEN 1 ELSE 0]
        /\ UNCHANGED <<config, cache, hits, misses, maxSize, ttl, stats, now,
                       procs, gens>>

NextUpdate ==
    \/ \E docs \in UpdateBatches : addDocuments(docs)
    \/ \E id \in UpdateIds : removeDocument(id)
    \/ \E id \in UpdateIds, doc \in PartialDocs : updateDocument(id, doc)
    \/ \E query \in Queries, knowledgeBase \in KBs :
           search(query, knowledgeBase, 0, <<0, 1>>)
    \/ shutdown

SpecUpdate == Init /\ [][NextUpdate]_vars

(***************************************************************************)
(* Capacity growth: batches large enough to fill an index to its capacity  *)
(* (1024 at least), then single documents past it.                         *)
(***************************************************************************)
\* the largest first batch that gets the minimal initial capacity
FirstFit == MinInitialCapacity - CapacitySlack

\* batch sizes: one document at a time (addDocument), two, and batches that
\* fill an index up to its capacity
GrowSizes ==
    {1, 2, CapacitySlack - 1, CapacitySlack, FirstFit, FirstFit + 1}

GrowDocs == {d \in Docs : d.content = "a"}

\* a batch of size copies of doc
BatchOf(doc, size) == [i \in 1..size |-> doc]

\* RAGService.addDocuments without the bound MaxDocs of the small model
\* (addDocument(doc) is addDocuments([doc]), lines 268-270)
addDocumentsBulk(docs) ==
    LET r == AddGroups(Registry, docs, GroupOrder(docs))
    IN  /\ Called
        /\ docs # <<>>
        /\ \A kb \in {docs[i].knowledgeBase : i \in DOMAIN docs} :
              OpenCount(kb) + Len(GroupDocs(docs, kb)) <= MaxGrowDocs
        /\ SetRegistry(r.st)
        /\ last' = [NoCall EXCEPT
               !.op = "addDocuments",
               !.fetched = Len(GroupOrder(docs)),
               !.error = IF r.threw THEN "CapacityExceeded" ELSE None]
        /\ UNCHANGED <<config, cache, hits, misses, maxSize, ttl, stats, now,
                       procs, gens>>

NextGrow ==
    \E doc \in GrowDocs, size \in GrowSizes :
        addDocumentsBulk(BatchOf(doc, size))

SpecGrow == Init /\ [][NextGrow]_vars

(***************************************************************************)
(* Batches over several knowledge bases: the grouping of addDocuments      *)
(* (lines 278-289), with ids of the caller and generated ids.              *)
(***************************************************************************)
MixedDocs ==
    {d \in [knowledgeBase : EnvKBs, content : Texts,
            id : DocIds \cup UpdateIds] :
        (d.content = "a") <=> (d.id = None)}

\* batches long enough to hold a document of another knowledge base between
\* two documents of one knowledge base
MixedBatches == SeqsUpTo(MixedDocs, MaxBatch + 1)

NextMixed ==
    \/ \E docs \in MixedBatches : addDocuments(docs)
    \/ shutdown

SpecMixed == Init /\ [][NextMixed]_vars

(***************************************************************************)
(* Knowledge bases by the files of their names: a name is any string, and  *)
(* the files are found through path.join (lines 328-329, 394-395, 485,     *)
(* 493).                                                                   *)
(***************************************************************************)
PathKBs == EnvKBs \cup {"./" \o name : name \in KBs}

PathDocs == [knowledgeBase : PathKBs, content : Texts, id : DocIds]

\* batches for one knowledge base
PathBatches ==
    {docs \in SeqsUpTo(PathDocs, MaxBatch) :
        \A i \in DOMAIN docs : docs[i].knowledgeBase = docs[1].knowledgeBase}

NextPaths ==
    \/ \E docs \in PathBatches : addDocuments(docs)
    \/ \E query \in Queries, knowledgeBase \in PathKBs :
           search(query, knowledgeBase, 0, <<0, 1>>)
    \/ \E name \in PathKBs : removeKnowledgeBase(name)

SpecPaths == Init /\ [][NextPaths]_vars

(***************************************************************************)
(* Properties.                                                             *)
(***************************************************************************)
\* the cache key of the call recorded in a call record
KeyOfCall(call) ==
    getCacheKey(call.knowledgeBase, getEmbedding(call.query), kInputOf(call.k))

\* the knowledge base has no state at all: not open, no persisted file
Absent(knowledgeBase) ==
    /\ knowledgeBase \notin DOMAIN indices
    /\ knowledgeBase \notin DOMAIN indexFiles
    /\ knowledgeBase \notin DOMAIN chunkFiles

\* the knowledge base is closed and both its files are on disk
PersistedClosed(knowledgeBase) ==
    /\ knowledgeBase \notin DOMAIN indices
    /\ knowledgeBase \in DOMAIN indexFiles
    /\ knowledgeBase \in DOMAIN chunkFiles

\* C1: every result a search returns has a score >= the threshold passed to
\* that call, whatever calls (earlier searches included) preceded it.
C1_ScoresMeetThreshold ==
    last.op = "search" =>
        \A i \in DOMAIN last.result :
            FracGeq(last.result[i].score, last.threshold)

\* C2: a search against a knowledge base that was removed (and to which no
\* document was added since: it is neither open nor on disk) returns the
\* empty list.
C2_RemovedSearchEmpty ==
    (last.op = "search" /\ Absent(last.knowledgeBase)) => last.result = <<>>

\* C3: addDocuments of m documents to a knowledge base that is closed and has
\* n persisted documents (added before a shutdown, no search since) loads it:
\* afterwards it holds n+m documents at ordinals 0..n+m-1, in memory and on
\* disk, and the first n chunks are the persisted ones.
C3_PersistedLoadedOnAdd ==
    [][\A docs \in Batches : \A kb \in KBs :
          (/\ last'.op = "addDocuments"
           /\ PersistedClosed(kb)
           /\ GroupDocs(docs, kb) # <<>>
           /\ addDocuments(docs)) =>
          LET n == getCurrentCount(indexFiles[kb])
              m == Len(GroupDocs(docs, kb))
              before == JSONparse(chunkFiles[kb])
          IN  /\ getCurrentCount(indices'[kb]) = n + m
              /\ DOMAIN chunkMaps'[kb] = 0..(n + m - 1)
              /\ \A i \in 0..(n - 1) : chunkMaps'[kb][i] = before[i]
              /\ getCurrentCount(indexFiles'[kb]) = n + m
              /\ DOMAIN JSONparse(chunkFiles'[kb]) = 0..(n + m - 1)
      ]_vars

\* the key set of every open knowledge base's chunk map is 0..currentCount-1
ChunkKeysContiguous ==
    \A kb \in DOMAIN indices :
        /\ kb \in DOMAIN chunkMaps
        /\ DOMAIN chunkMaps[kb] = 0..(getCurrentCount(indices[kb]) - 1)

\* addDocuments of n documents to a knowledge base without any state leaves
\* it with currentCount = n and the keys 0..n-1
FreshAddCounts ==
    \A docs \in Batches : \A kb \in KBs :
        (/\ last'.op = "addDocuments"
         /\ Absent(kb)
         /\ GroupDocs(docs, kb) # <<>>
         /\ addDocuments(docs)) =>
            /\ getCurrentCount(indices'[kb]) = Len(GroupDocs(docs, kb))
            /\ DOMAIN chunkMaps'[kb] = 0..(Len(GroupDocs(docs, kb)) - 1)

\* C4: in every state the chunk map of every open knowledge base has exactly
\* the keys 0..currentCount-1, currentCount being the point count of its
\* index; adding n documents to a fresh knowledge base gives currentCount = n
\* and the keys 0..n-1.
C4_ChunkKeysMatchCount == []ChunkKeysContiguous /\ [][FreshAddCounts]_vars

\* C4 witness: a second addDocuments has completed on an open knowledge base
\* that now holds two documents at the ordinals 0 and 1.
C4_Witness ==
    /\ last.op = "addDocuments"
    /\ calls >= 2
    /\ \E kb \in DOMAIN indices :
          /\ getCurrentCount(indices[kb]) = 2
          /\ DOMAIN chunkMaps[kb] = {0, 1}
          /\ indices[kb].points[0] # indices[kb].points[1]

\* C5: when addDocuments returns, the persisted index and the persisted chunk
\* map of each knowledge base it touched hold exactly the documents held in
\* memory, and a shutdown followed by a load of that knowledge base gives the
\* same index and the same ordinal-to-chunk mapping.
C5_PersistedEqualsMemory ==
    [][\A docs \in Batches : \A kb \in KBs :
          (/\ last'.op = "addDocuments"
           /\ GroupDocs(docs, kb) # <<>>
           /\ addDocuments(docs)) =>
          LET after == [indices |-> indices', chunkMaps |-> chunkMaps',
                        indexFiles |-> indexFiles', chunkFiles |-> chunkFiles']
              reload == getOrLoadIndex(AfterShutdown(after), kb)
          IN  /\ kb \in DOMAIN indices' /\ kb \in DOMAIN chunkMaps'
              /\ kb \in DOMAIN indexFiles' /\ kb \in DOMAIN chunkFiles'
              /\ indexFiles'[kb].points = indices'[kb].points
              /\ JSONparse(chunkFiles'[kb]) = chunkMaps'[kb]
              /\ reload.found
              /\ getCurrentCount(reload.st.indices[kb])
                     = getCurrentCount(indices'[kb])
              /\ reload.st.chunkMaps[kb] = chunkMaps'[kb]
      ]_vars

\* C5 witness: addDocuments has returned and the files of the knowledge base
\* hold the two documents it holds in memory.
C5_Witness ==
    /\ last.op = "addDocuments"
    /\ \E kb \in DOMAIN indices :
          /\ kb \in DOMAIN indexFiles /\ kb \in DOMAIN chunkFiles
          /\ Len(chunkFiles[kb]) = 2
          /\ getCurrentCount(indexFiles[kb]) = 2
          /\ JSONparse(chunkFiles[kb]) = chunkMaps[kb]

\* C6 as stated: for every k the caller supplies, search returns at most k
\* results.
C6_AtMostK == last.op = "search" => Len(last.result) <= last.k

\* C6 amended: for every k >= 1 the caller supplies, search returns at most k
\* results.
C6_AtMostPositiveK ==
    (last.op = "search" /\ last.k >= 1) => Len(last.result) <= last.k

\* C6 witness: a search with k = 1 has queried a knowledge base of at least
\* two documents and returned one result.
C6_Witness ==
    /\ last.op = "search"
    /\ last.k = 1
    /\ ~last.hit
    /\ Len(last.result) = 1
    /\ last.knowledgeBase \in DOMAIN indices
    /\ getCurrentCount(indices[last.knowledgeBase]) >= 2

\* an entry of c with the same key, result and timestamp as e
Kept(c, e) ==
    \E i \in DOMAIN c :
        /\ c[i].key = e.key
        /\ c[i].result = e.result
        /\ c[i].timestamp = e.timestamp

C8_CacheWithinConfiguredSize == Len(cache) <= config.cacheSize

\* C9: a lookup of a key whose entry is older than ttl is a miss and removes
\* the entry; a lookup of a key whose entry is younger than ttl returns the
\* stored result list and leaves the entry and its timestamp unchanged.
C9_LookupExpiry ==
    [][(last'.op = "get" /\ KeyOfCall(last') \in CacheKeys(cache)) =>
          LET key == KeyOfCall(last')
              entry == CacheEntry(cache, key)
          IN  /\ now - entry.timestamp > ttl =>
                    /\ ~last'.hit
                    /\ misses' = misses + 1 /\ hits' = hits
                    /\ key \notin CacheKeys(cache')
                    /\ \A i \in DOMAIN cache :
                          cache[i].key # key => Kept(cache', cache[i])
              /\ now - entry.timestamp < ttl =>
                    /\ last'.hit
                    /\ last'.result = entry.result
                    /\ hits' = hits + 1 /\ misses' = misses
                    /\ cache' = cache
      ]_vars

\* C9 witness: a lookup has found an entry older than ttl and missed, after
\* an earlier lookup had hit.
C9_Witness ==
    /\ last.op = "get"
    /\ ~last.hit
    /\ last.entryAge > ttl
    /\ hits > 0
    /\ KeyOfCall(last) \notin CacheKeys(cache)

\* the registry and the metrics are left alone
SearchTouchesNothing ==
    UNCHANGED <<indices, chunkMaps, indexFiles, chunkFiles, stats, cache>>

\* C10 as stated: the second of two identical search(query, kb, k) calls,
\* made right after the first (no put, no time in between), is answered from
\* the cache: same result list, a cache hit, no index query, no load.
C10_SecondCallHits ==
    [][(/\ last.op = "search" /\ last'.op = "search"
        /\ last'.query = last.query
        /\ last'.knowledgeBase = last.knowledgeBase
        /\ last'.k = last.k) =>
          /\ last'.hit
          /\ hits' = hits + 1
          /\ last'.result = last.result
          /\ last'.effectiveK = 0
          /\ SearchTouchesNothing
      ]_vars

\* a search that finds its knowledge base (open or loadable) leaves its result
\* list in the cache, stored under its key
SearchStores ==
    (/\ last'.op = "search"
     /\ last'.knowledgeBase \in DOMAIN indices \/ PersistedClosed(last'.knowledgeBase))
    => /\ KeyOfCall(last') \in CacheKeys(cache')
       /\ CacheEntry(cache', KeyOfCall(last')).result = last'.result
       /\ last'.hit \/ CacheEntry(cache', KeyOfCall(last')).timestamp = now

\* an entry stays in the cache, result and timestamp unchanged, across every
\* call but a shutdown, a lookup of its key at an age >= ttl, and a put that
\* finds the cache full with the entry first
EntryStays ==
    \A i \in DOMAIN cache :
        \/ Kept(cache', cache[i])
        \/ last'.op = "shutdown"
        \/ /\ last'.op = "search"
           /\ KeyOfCall(last') = cache[i].key
           /\ now - cache[i].timestamp >= ttl
        \/ /\ last'.op = "search"
           /\ ~last'.hit
           /\ Len(cache) >= maxSize
           /\ i = 1

\* a search whose key has an entry younger than ttl is answered from it
FreshEntryHits ==
    (/\ last'.op = "search"
     /\ KeyOfCall(last') \in CacheKeys(cache)
     /\ now - CacheEntry(cache, KeyOfCall(last')).timestamp < ttl)
    => /\ last'.hit
       /\ hits' = hits + 1 /\ misses' = misses
       /\ last'.result = CacheEntry(cache, KeyOfCall(last')).result
       /\ last'.effectiveK = 0
       /\ SearchTouchesNothing

\* C10 amended: a search(query, kb, k) that finds its knowledge base open or
\* loadable leaves its result list in the cache; the entry stays until a
\* shutdown, a full cache or its expiry removes it; and an identical call made
\* less than ttl after the list was stored is answered from the entry: same
\* result list, a cache hit, no index query, no load.
C10_StoredResultAnswersSecondCall ==
    [][SearchStores /\ EntryStays /\ FreshEntryHits]_vars

\* C10 witness: a second identical search, made later but within ttl, was
\* answered from the cache with a non-empty list.
C10_Witness ==
    /\ last.op = "search"
    /\ last.hit
    /\ last.result # <<>>
    /\ last.entryAge > 0
    /\ last.entryAge < ttl

\* every call has returned and there was no shutdown
AllReturned == Quiescent /\ last.op # "shutdown"

\* C11: once removeKnowledgeBase(name) and every call on name that was in
\* flight with it have returned (no call was made after the removal
\* returned), neither the index file nor the chunk-map file of name exists,
\* whichever of the two existed when the removal started.
C11_RemovedFilesGone ==
    (/\ AllReturned
     /\ \A p \in Procs : ~procs[p].afterRemove)
    => \A p \in Procs :
          procs[p].op = "removeKnowledgeBase" =>
              /\ procs[p].knowledgeBase \notin DOMAIN indexFiles
              /\ procs[p].knowledgeBase \notin DOMAIN chunkFiles

\* C12: a search reports an absent knowledge base (an empty list without an
\* index query) only when neither persisted file of the knowledge base
\* exists, and a search that has to load a knowledge base whose chunk-map
\* file is malformed fails with a hard error instead.
C12_AbsentOnlyWithoutFiles ==
    (/\ last.op = "search" /\ ~last.hit /\ last.error # "EmbeddingError"
     /\ last.knowledgeBase \notin DOMAIN indices)
    => /\ (last.error = None /\ last.effectiveK = 0) =>
              /\ last.knowledgeBase \notin DOMAIN indexFiles
              /\ last.knowledgeBase \notin DOMAIN chunkFiles
       /\ (/\ last.knowledgeBase \in DOMAIN chunkFiles
           /\ ~JSONvalid(chunkFiles[last.knowledgeBase])) =>
              last.error = "PersistenceError"

\* C13: a search against a knowledge base that is neither open nor persisted
\* returns the empty list without an error and leaves the open indices and
\* chunk maps, the persisted files, the cache entries and the search
\* metrics unchanged.
C13_AbsentSearchChangesNothing ==
    [][(last'.op = "search" /\ Absent(last'.knowledgeBase)) =>
          /\ last'.error = None
          /\ last'.result = <<>>
          /\ UNCHANGED <<indices, chunkMaps, indexFiles, chunkFiles, cache,
                         stats>>
      ]_vars

\* the index, the chunk map and the two files of a knowledge base
StateOfKB(st, knowledgeBase) ==
    [f \in {"indices", "chunkMaps", "indexFiles", "chunkFiles"} |->
        IF knowledgeBase \in DOMAIN st[f] THEN <<st[f][knowledgeBase]>>
        ELSE <<>>]

\* the registry after the step
RegistryAfter ==
    [indices |-> indices', chunkMaps |-> chunkMaps',
     indexFiles |-> indexFiles', chunkFiles |-> chunkFiles']

\* a rejected search
SearchRejectedChangesNothing ==
    \A query \in Queries, knowledgeBase \in EnvKBs :
        searchRejected(query, knowledgeBase, 0, <<0, 1>>) =>
            /\ last'.error = "EmbeddingError"
            /\ last'.fetched = 1
            /\ StateOfKB(RegistryAfter, knowledgeBase)
                   = StateOfKB(Registry, knowledgeBase)
            /\ UNCHANGED <<cache, hits, misses, stats>>

\* a rejected addDocuments: the groups before the rejected one are requested
\* once each, and so is the rejected one
AddRejectedChangesNothing ==
    \A docs \in EnvBatches, failAt \in 1..MaxBatch :
        (last'.op = "addDocuments" /\ addDocumentsRejected(docs, failAt)) =>
            /\ last'.error = "EmbeddingError"
            /\ last'.knowledgeBase = GroupOrder(docs)[failAt]
            /\ last'.fetched = failAt
            /\ StateOfKB(RegistryAfter, last'.knowledgeBase)
                   = StateOfKB(Registry, last'.knowledgeBase)
            /\ UNCHANGED <<cache, hits, misses, stats>>

\* C14: when the embedding provider answers a request of search or of
\* addDocuments with a non-success status, the provider is called once for
\* that batch (no retry), the error reaches the caller, and the index, the
\* chunk map and the files of the knowledge base concerned and the cache
\* entries are unchanged.
C14_RejectedChangesNothing ==
    [][SearchRejectedChangesNothing /\ AddRejectedChangesNothing]_vars

\* C14 witness: an addDocuments over two knowledge bases was rejected at its
\* second request: the first knowledge base is open, the second one is not.
C14_Witness ==
    /\ last.op = "addDocuments"
    /\ last.error = "EmbeddingError"
    /\ last.fetched = 2
    /\ last.knowledgeBase \notin DOMAIN indices
    /\ \E kb \in DOMAIN indices : kb \in DOMAIN indexFiles

\* C15: when shutdown returns, no other call being in flight, no knowledge
\* base is open (no index, no chunk map), the cache is empty with its hit
\* and miss counters at zero, and the index file of every knowledge base
\* that was open when shutdown started holds the index it had in memory.
C15_ShutdownReleasesAndPersists ==
    [][shutdown =>
          /\ indices' = EmptyMap
          /\ chunkMaps' = EmptyMap
          /\ cache' = <<>>
          /\ hits' = 0
          /\ misses' = 0
          /\ \A kb \in DOMAIN indices :
                /\ kb \in DOMAIN indexFiles'
                /\ indexFiles'[kb] = indices[kb]
      ]_vars

\* C15 witness: shutdown has returned and has written the index of a
\* knowledge base whose chunk-map file does not hold as many documents.
C15_Witness ==
    /\ last.op = "shutdown"
    /\ indices = EmptyMap
    /\ \E kb \in DOMAIN indexFiles :
          /\ getCurrentCount(indexFiles[kb]) >= 1
          /\ kb \in DOMAIN chunkFiles =>
                Len(chunkFiles[kb]) # getCurrentCount(indexFiles[kb])

\* the chunk map a knowledge base holds: in memory when it is open, in its
\* chunk-map file when it is closed and persisted
HeldChunks(knowledgeBase) ==
    IF knowledgeBase \in DOMAIN chunkMaps THEN chunkMaps[knowledgeBase]
    ELSE IF PersistedClosed(knowledgeBase)
    THEN JSONparse(chunkFiles[knowledgeBase])
    ELSE EmptyMap

\* removeDocument leaves the registry, the files and the cache alone
RemoveDocumentChangesNothing ==
    \A id \in UpdateIds :
        removeDocument(id) =>
            UNCHANGED <<indices, chunkMaps, indexFiles, chunkFiles, cache>>

\* updateDocument appends a chunk with the id and keeps what was held
UpdateAppendsDuplicate ==
    \A id \in UpdateIds, doc \in PartialDocs :
        (/\ last'.op = "updateDocument"
         /\ doc.knowledgeBase # None /\ doc.content # None
         /\ \E i \in DOMAIN HeldChunks(doc.knowledgeBase) :
                HeldChunks(doc.knowledgeBase)[i].id = id
         /\ updateDocument(id, doc)) =>
            LET kb == doc.knowledgeBase
                n == Cardinality(DOMAIN HeldChunks(kb))
            IN  /\ getCurrentCount(indices'[kb]) = n + 1
                /\ chunkMaps'[kb]
                      = MapSet(HeldChunks(kb), n,
                               [id |-> id, text |-> doc.content])

\* C16: removeDocument(id) changes no index, chunk map, persisted file or
\* cache entry; updateDocument(id, {knowledgeBase, content}) on a knowledge
\* base that holds a chunk with that id keeps the old chunk and appends one
\* chunk with the same id at ordinal currentCount: the count grows by 1.
C16_UpdateAppendsDuplicate ==
    [][RemoveDocumentChangesNothing /\ UpdateAppendsDuplicate]_vars

\* C17: an addDocuments batch of b documents to an open knowledge base with
\* currentCount + b > capacity grows the index once, to the capacity
\* max(currentCount + b + 256, floor(capacity * 1.5)), which is larger than
\* the old one; a batch with currentCount + b <= capacity leaves the
\* capacity unchanged.
C17_GrowsToPolicyCapacity ==
    [][\A doc \in GrowDocs, size \in GrowSizes :
          (/\ doc.knowledgeBase \in DOMAIN indices
           /\ addDocumentsBulk(BatchOf(doc, size))) =>
          LET index == indices[doc.knowledgeBase]
              currentCount == getCurrentCount(index)
              capacity == getMaxElements(index)
              after == getMaxElements(indices'[doc.knowledgeBase])
          IN  IF currentCount + size > capacity
              THEN /\ after = Max2(currentCount + size + CapacitySlack,
                                   (capacity * 3) \div 2)
                   /\ after > capacity
              ELSE after = capacity
      ]_vars

\* C17 witness: a batch to an open knowledge base has grown its index to
\* currentCount + b + 256, more than one and a half times the old capacity.
C17_Witness ==
    /\ last.op = "addDocuments"
    /\ calls >= 2
    /\ \E kb \in DOMAIN indices :
          /\ getMaxElements(indices[kb])
                = getCurrentCount(indices[kb]) + CapacitySlack
          /\ getMaxElements(indices[kb]) > (MinInitialCapacity * 3) \div 2

\* C18: in every state every open index has currentCount <= capacity, and no
\* insert of addDocuments uses an ordinal at or above the capacity (addPoint
\* never throws), also where a fresh knowledge base of capacity
\* max(n + 256, 1024) is filled one document at a time past that capacity.
C18_CountWithinCapacity ==
    /\ \A kb \in DOMAIN indices :
          /\ getCurrentCount(indices[kb]) <= getMaxElements(indices[kb])
          /\ \A l \in DOMAIN indices[kb].points :
                l < getMaxElements(indices[kb])
    /\ last.error # "CapacityExceeded"

\* C18 witness: single documents were added to a full index of the minimal
\* initial capacity: it holds one document more and has grown.
C18_Witness ==
    /\ last.op = "addDocuments"
    /\ \E kb \in DOMAIN indices :
          /\ getCurrentCount(indices[kb]) = MinInitialCapacity + 1
          /\ getMaxElements(indices[kb]) = (MinInitialCapacity * 3) \div 2
          /\ DOMAIN chunkMaps[kb] = 0..MinInitialCapacity

\* the calls made were addDocuments calls
OnlyAdds == \A p \in Procs : procs[p].op \in {"new", "addDocuments"}

\* C19: for every interleaving of concurrent addDocuments calls on one
\* knowledge base, and every completion order of their disk writes, once
\* all of them have returned the index file and the chunk-map file hold as
\* many documents as the index in memory, the keys of the chunk-map file
\* being 0..currentCount-1.
C19_ConcurrentAddsPersistMemory ==
    (AllReturned /\ OnlyAdds) =>
        \A kb \in DOMAIN indices :
            /\ kb \in DOMAIN indexFiles
            /\ kb \in DOMAIN chunkFiles
            /\ getCurrentCount(indexFiles[kb]) = getCurrentCount(indices[kb])
            /\ DOMAIN JSONparse(chunkFiles[kb])
                   = 0..(getCurrentCount(indices[kb]) - 1)

\* the calls made were search and addDocuments calls, one search at least
\* having loaded its knowledge base from disk
LoadingSearchAndAdds ==
    /\ \A p \in Procs : procs[p].op \in {"new", "search", "addDocuments"}
    /\ \E p \in Procs : procs[p].op = "search" /\ procs[p].loaded

\* the knowledge base is open and holds the document at some ordinal
HeldInMemory(doc) ==
    /\ doc.knowledgeBase \in DOMAIN indices
    /\ doc.knowledgeBase \in DOMAIN chunkMaps
    /\ \E i \in DOMAIN chunkMaps[doc.knowledgeBase] :
          /\ chunkMaps[doc.knowledgeBase][i].text = doc.content
          /\ i \in DOMAIN indices[doc.knowledgeBase].points
          /\ indices[doc.knowledgeBase].points[i] = EmbeddingOf(doc.content)

\* C20: for every interleaving of a search that loads a knowledge base from
\* disk with an addDocuments on that knowledge base, once both have returned
\* the open index and chunk map hold every document the addDocuments
\* inserted.
C20_LoadKeepsInsertedDocuments ==
    (AllReturned /\ LoadingSearchAndAdds) =>
        \A p \in Procs :
            procs[p].op = "addDocuments" =>
                \A i \in DOMAIN procs[p].docs : HeldInMemory(procs[p].docs[i])

\* the last call was a search that got its query vector, missed the cache
\* and queried the index of its knowledge base (search leaves that index as
\* it found it)
QueriedIndex ==
    /\ last.op = "search"
    /\ last.error = None
    /\ ~last.hit
    /\ last.knowledgeBase \in DOMAIN indices

\* the effective k lies between 1 and the least of the given k, the count and
\* the capacity of the index queried
EffectiveKWithin(k) ==
    LET index == indices[last.knowledgeBase]
    IN  /\ 1 <= last.effectiveK
        /\ last.effectiveK <= k
        /\ last.effectiveK <= getCurrentCount(index)
        /\ last.effectiveK <= getMaxElements(index)

OrdinalInBatch(docs, n) ==
    OpenCount(docs[n].knowledgeBase)
        + Cardinality({m \in 1..(n - 1) :
                          docs[m].knowledgeBase = docs[n].knowledgeBase})

\* after the step the n-th document of the batch is held at its ordinal, with
\* its vector, its text and its id
PlacedInOrder(docs, n) ==
    LET kb == docs[n].knowledgeBase
        ordinal == OrdinalInBatch(docs, n)
    IN  /\ kb \in DOMAIN indices' /\ kb \in DOMAIN chunkMaps'
        /\ ordinal \in DOMAIN indices'[kb].points
        /\ indices'[kb].points[ordinal] = EmbeddingOf(docs[n].content)
        /\ ordinal \in DOMAIN chunkMaps'[kb]
        /\ chunkMaps'[kb][ordinal].text = docs[n].content
        /\ chunkMaps'[kb][ordinal].id =
               IF docs[n].id # None THEN docs[n].id
               ELSE "doc-" \o ToString(ordinal)

\* the step changes no chunk below the count the knowledge base had
EarlierChunksKept(knowledgeBase) ==
    knowledgeBase \in DOMAIN chunkMaps =>
        \A j \in DOMAIN chunkMaps[knowledgeBase] :
            j < OpenCount(knowledgeBase) =>
                /\ j \in DOMAIN chunkMaps'[knowledgeBase]
                /\ chunkMaps'[knowledgeBase][j] = chunkMaps[knowledgeBase][j]

\* C22: addDocuments makes one embedding call per knowledge base of its
\* input, and stores the i-th document (0-based) of a knowledge base's group,
\* in input order, at ordinal currentCount + i, currentCount being the count
\* found before the batch, with its own text and with the id of the caller or
\* the generated id doc-{ordinal}; chunks at earlier ordinals stay as they
\* were.
C22_GroupsPlacedInInputOrder ==
    [][(last'.op = "addDocuments" /\ last'.error = None) =>
          LET docs == last'.docs
              groups == {docs[n].knowledgeBase : n \in DOMAIN docs}
          IN  /\ last'.fetched = Cardinality(groups)
              /\ \A n \in DOMAIN docs : PlacedInOrder(docs, n)
              /\ \A kb \in groups : EarlierChunksKept(kb)]_vars

\* C22 witness: a batch of three documents has been added whose second
\* document belongs to another knowledge base than the first and the third,
\* that knowledge base having held a document before; one id was supplied.
C22_Witness ==
    /\ last.op = "addDocuments"
    /\ last.error = None
    /\ Len(last.docs) = 3
    /\ last.docs[1].knowledgeBase = last.docs[3].knowledgeBase
    /\ last.docs[2].knowledgeBase # last.docs[1].knowledgeBase
    /\ last.docs[1].content # last.docs[3].content
    /\ last.docs[2].knowledgeBase \in DOMAIN indices
    /\ getCurrentCount(indices[last.docs[2].knowledgeBase]) = 2
    /\ last.fetched = 2

\* the knowledge bases the last call named
CalledOn ==
    IF last.op = "addDocuments"
    THEN {last.docs[i].knowledgeBase : i \in DOMAIN last.docs}
    ELSE {last.knowledgeBase}

\* the open index and chunk map of a knowledge base, if any
MemoryOf(knowledgeBase) ==
    [index |-> IF knowledgeBase \in DOMAIN indices
               THEN <<indices[knowledgeBase]>> ELSE <<>>,
     chunkMap |-> IF knowledgeBase \in DOMAIN chunkMaps
                  THEN <<chunkMaps[knowledgeBase]>> ELSE <<>>]

\* the persisted files of a knowledge base, if any
FilesOf(knowledgeBase) ==
    [index |-> IF pathJoin(knowledgeBase) \in DOMAIN indexFiles
               THEN <<indexFiles[pathJoin(knowledgeBase)]>> ELSE <<>>,
     chunks |-> IF pathJoin(knowledgeBase) \in DOMAIN chunkFiles
                THEN <<chunkFiles[pathJoin(knowledgeBase)]>> ELSE <<>>]

\* the step leaves the knowledge base as it was, in memory and on disk
LeftAlone(knowledgeBase) ==
    /\ MemoryOf(knowledgeBase)' = MemoryOf(knowledgeBase)
    /\ FilesOf(knowledgeBase)' = FilesOf(knowledgeBase)

\* the results of the search that has just returned come from the cache
\* entry under the key of its own knowledge base, or are chunks of the chunk
\* map of its own knowledge base
ResultsOfOwnKnowledgeBase ==
    LET kb == last'.knowledgeBase
        key == getCacheKey(kb, getEmbedding(last'.query), kInputOf(last'.k))
    IN  IF last'.hit
        THEN /\ key \in CacheKeys(cache)
             /\ CacheEntry(cache, key).result = last'.result
        ELSE \A i \in DOMAIN last'.result :
                /\ kb \in DOMAIN chunkMaps'
                /\ \E j \in DOMAIN chunkMaps'[kb] :
                      /\ chunkMaps'[kb][j].id = last'.result[i].id
                      /\ chunkMaps'[kb][j].text = last'.result[i].content

\* C23: addDocuments to, search on and removeKnowledgeBase of a knowledge
\* base leave the index, the chunk map and the persisted files of every
\* other knowledge base (one that documents were added to and that is open)
\* as they were, and a search returns only chunks of its own knowledge base,
\* or the result cached for its own knowledge base.
C23_KnowledgeBasesIndependent ==
    [][(last'.op \in {"addDocuments", "search", "removeKnowledgeBase"}) =>
          /\ \A kb \in DOMAIN indices \ CalledOn' : LeftAlone(kb)
          /\ last'.op = "search" => ResultsOfOwnKnowledgeBase]_vars

====
